---- MODULE Spec2Model ----
(***************************************************************************)
(* Model of the devicetree shell session (src/src/dtsh/session.py): the   *)
(* session singletons, DevicetreeShellSession.open/run/close and the two  *)
(* GNU readline callbacks; and of the tree view and the text helpers of   *)
(* src/src/dtsh/tui.py.                                                    *)
(*                                                                         *)
(* Granularity: run() is cut at its only blocking point, the call to      *)
(* term.readline() (session.py:64).  One action is everything the code    *)
(* does between two such points.  The callbacks run to completion while   *)
(* the loop is blocked there.                                              *)
(***************************************************************************)
EXTENDS Integers, Sequences, FiniteSets

VARIABLES
    session,    \* _session (session.py:156): None or the session's fields
    autocomp,   \* _autocomp (session.py:157): None or the resolver
    acModel,    \* the resolver's last computed model (_autocomp.model)
    handle,     \* TRUE once open() has returned a session to its caller
    opens,      \* number of collaborator sets constructed so far (object identities)
    openRet,    \* what the last call of open() did: returned or raised
    sigint,     \* disposition of SIGINT: "default" or "suppressed"
    state,      \* "Idle" (run() not entered), "Running" (blocked in readline), "Closed"
    pwd,        \* the shell's current path (Dtsh.pwd)
    sparse,     \* DtshTheme.OPTION_SPARSE_PROMPT
    out,        \* the terminal operations made by the operation that acted last, in order
    execLog,    \* command lines forwarded to the engine for the most recent line read
    result,     \* how the most recent loop iteration ended
    lastLine,   \* the most recent line returned by term.readline()
    lineBuf,    \* readline.get_line_buffer(): the text being edited
    compText,   \* token of the completion request in progress
    rets,       \* values returned by the completion callback for indices 0, 1, ... of the request
    acCalls,    \* resolver computations made for the request in progress
    lastOp,     \* the operation that acted last
    cfg,        \* the configuration directory: "noparent", "absent" or "dir"
    hist,       \* TRUE when the history file exists
    exitCode,   \* "none" while the process lives, "0" after sys.exit(0), "OSError" after an uncaught OSError
    tpc,        \* where the view code stands: "idle", "call", "loop", "done" or "desc"
    status,     \* the status of each node of the devicetree
    root,       \* DtNodeTreeView: the node the view is rooted at
    level,      \* DtNodeTreeView._level: the maximum depth, 0 for unlimited
    rich_fmt,   \* DtNodeTreeView._rich_fmt
    depth,      \* DtNodeTreeView._depth
    stack,      \* the active calls of _follow_node_branch, innermost last
    callee,     \* the node _follow_node_branch is about to be called with
    view,       \* DtNodeTreeView._view: the branches, in the order tree.add() made them
    desc,       \* the description given to mk_txt_desc_short
    short       \* the text mk_txt_desc_short returned

shellVars == <<session, autocomp, acModel, handle, opens, openRet, sigint, state, pwd, sparse,
          out, execLog, result, lastLine, lineBuf, compText, rets, acCalls,
          lastOp, cfg, hist, exitCode>>

treeVars == <<tpc, status, root, level, rich_fmt, depth, stack, callee, view, desc, short>>

vars == <<shellVars, treeVars>>

sessionVars == <<session, autocomp, acModel, handle, opens, openRet, sigint>>
editVars    == <<lineBuf, compText, rets, acCalls>>
hookFrame   == <<session, autocomp, handle, opens, openRet, sigint, state, pwd,
                 execLog, result, lastLine, exitCode, cfg, hist, sparse>>
fsVars      == <<cfg, hist>>

(***************************************************************************)
(* Bounds.                                                                 *)
(***************************************************************************)
MaxOpens == 2       \* collaborator sets that open() may construct
MaxIndex == 3       \* largest candidate index the editor asks for in one request
MaxLevel == 3       \* largest maximum depth a tree view is asked for
MaxDisabled == 1    \* most nodes of the devicetree that are disabled
MaxDescLen == 4     \* longest description, in characters

None == [kind |-> "None"]

(***************************************************************************)
(* Command lines, the engine and its errors.                               *)
(***************************************************************************)
\* Lines term.readline() may return.
Lines == {"", "q", "quit", "exit", "ls"}

\* session.py:66
QuitAliases == {"q", "quit", "exit"}

IsQuit_noexit(cmdline) == cmdline \in {"q", "quit"}

\* session.py:66  cmdline in ['q', 'quit', 'exit']
IsQuit(cmdline) == cmdline \in QuitAliases

NonEmpty_always(cmdline) == TRUE

\* session.py:65  truthiness of the line read
NonEmpty(cmdline) == cmdline # ""

\* Dtsh.exec_command_string: succeeds or raises one of three errors.
Outcomes == {"ok", "notfound", "usage", "failed"}

\* The error object raised by the engine for a failed command line.
Err(outcome, cmdline) == [kind |-> outcome, cmd |-> cmdline]

Paths == {"/", "/soc"}

LastErrAfter_keep(prev, outcome, e) == IF outcome = "ok" THEN prev ELSE e

\* session.py:69, 75, 78, 81  the value of _last_err after the engine returned or raised
LastErrAfter(prev, outcome, e) == IF outcome = "ok" THEN None ELSE e

\* session.py:76, 79, 82  the message printed by the handler of each error
ErrOps(outcome, e) ==
    CASE outcome = "ok"       -> << >>
      [] outcome = "notfound" -> <<[op |-> "write", prefix |-> "dtsh", text |-> "Command not found", name |-> e.cmd]>>
      [] outcome = "usage"    -> <<[op |-> "write", prefix |-> e.cmd, text |-> "usage"]>>
      [] outcome = "failed"   -> <<[op |-> "write", prefix |-> e.cmd, text |-> "failed"]>>

\* session.py:86-87
SparseOps(flag) == IF flag THEN <<[op |-> "write", text |-> ""]>> ELSE << >>

\* session.py:62-64  the path and the prompt written before blocking for a line
PromptOps(path, lastErr) ==
    <<[op |-> "write", path |-> path], [op |-> "prompt", err |-> (lastErr # None)]>>

\* session.py:57-58, 96-107
BannerOps == <<[op |-> "clear"], [op |-> "write", text |-> "banner"], [op |-> "write", text |-> ""]>>

(***************************************************************************)
(* close() and the history file.                                           *)
(***************************************************************************)
\* session.py:124-128  os.mkdir raises when the parent directory is missing
WriteHistoryOk(c) == c # "noparent"

\* session.py:126-127
CfgAfterWrite(c) == IF c = "absent" THEN "dir" ELSE c

\* session.py:92
CloseOps == <<[op |-> "write", text |-> "bye."]>>

EofOps_noabort == CloseOps

\* session.py:83-85  term.abort() and then close()
EofOps == <<[op |-> "abort"]>> \o CloseOps

NextState_failends(cmdline, ev) ==
    IF ev \in {"eof", "failed"} \/ (ev = "line" /\ IsQuit(cmdline)) THEN "Closed" ELSE "Running"

\* session.py:60-87  where the loop stands after an iteration: ev is "eof",
\* "line" (a line was read, and not dispatched) or the engine's outcome
NextState(cmdline, ev) ==
    IF ev = "eof" \/ (ev = "line" /\ IsQuit(cmdline)) THEN "Closed" ELSE "Running"

\* session.py:89-94  close(): farewell, history, sys.exit(0)
Close(ops) ==
    /\ out' = ops
    /\ IF WriteHistoryOk(cfg)
          THEN /\ cfg' = CfgAfterWrite(cfg)
               /\ hist' = TRUE
               /\ exitCode' = "0"
          ELSE /\ UNCHANGED fsVars
               /\ exitCode' = "OSError"

(***************************************************************************)
(* The autocomplete resolver and the candidates it ranks.                  *)
(***************************************************************************)
Item(variant, name) == [variant |-> variant, name |-> name]

\* Texts the editor's buffer may hold, and tokens it may ask to complete.
Buffers == {"", "ls -", "cd ", "find ", "man "}
Tokens  == {"", "c"}

\* Names that start with the token "c".
StartsWithC == {"cd", "cpus"}

HasPrefix(name, text) == text = "" \/ (text = "c" /\ name \in StartsWithC)

\* What the resolver offers for a command line, before the token filters it.
Candidates(cmdline, path) ==
    CASE cmdline = ""      -> <<Item("Command", "cd"), Item("Command", "ls")>>
      [] cmdline = "ls -"  -> <<Item("CommandOption", "-l"), Item("CommandOption", "-r")>>
      [] cmdline = "cd "   -> IF path = "/"
                                 THEN <<Item("Node", "cpus"), Item("Node", "soc")>>
                                 ELSE <<Item("Node", "uart@4000")>>
      [] cmdline = "find " -> <<Item("Binding", "arm,cpu"), Item("Binding", "nordic,uart")>>
      [] cmdline = "man "  -> <<Item("str", "dts"), Item("str", "cd")>>
      [] OTHER             -> << >>

\* DevicetreeAutocomp.autocomplete(cmdline, text, 0): the CompletionModel, a
\* function of the line, the token and the shell's current path.
Autocomplete(cmdline, text, path) ==
    SelectSeq(Candidates(cmdline, path), LAMBDA it : HasPrefix(it.name, text))

\* str(m): the plain textual form of a candidate
Str(m) == m.name

(***************************************************************************)
(* The completion callback, readline_completions_hook(text, state).       *)
(***************************************************************************)
\* The callbacks of one completion request run inside one editing operation
\* of the line editor: once the main program acts, no request is in progress.
RequestOver ==
    /\ compText' = ""
    /\ rets' = << >>
    /\ acCalls' = 0

\* session.py:161-162
CompletionsNoop(ac) == ac = None

Recomputes_first(st) == st = 0

\* session.py:165  the resolver is asked on every call, whatever the index
Recomputes(st) == TRUE

HookResult_short(completions, st) ==
    IF st + 1 < Len(completions) THEN completions[st + 1] ELSE None

\* session.py:167-169
HookResult(completions, st) ==
    IF st < Len(completions) THEN completions[st + 1] ELSE None

\* session.py:160-169.  The editor calls with index 0 to start a request and
\* with the next index to continue it.
readline_completions_hook(text, st) ==
    /\ exitCode = "none"
    /\ st <= MaxIndex
    /\ \/ st = 0
       \/ st = Len(rets) /\ text = compText
    /\ lastOp' = "completions"
    /\ compText' = text
    /\ IF CompletionsNoop(autocomp)
          THEN /\ rets' = Append(IF st = 0 THEN << >> ELSE rets, None)
               /\ acCalls' = IF st = 0 THEN 0 ELSE acCalls
               /\ UNCHANGED acModel
          ELSE LET completions == IF Recomputes(st)
                                     THEN Autocomplete(lineBuf, text, pwd)
                                     ELSE acModel
                   calls == IF Recomputes(st) THEN 1 ELSE 0
               IN /\ acModel' = completions
                  /\ acCalls' = (IF st = 0 THEN 0 ELSE acCalls) + calls
                  /\ rets' = Append(IF st = 0 THEN << >> ELSE rets,
                                    HookResult(completions, st))
    /\ out' = << >>
    /\ UNCHANGED lineBuf
    /\ UNCHANGED hookFrame
    /\ UNCHANGED treeVars

(***************************************************************************)
(* The display callback, readline_display_hook.                            *)
(***************************************************************************)
DisplayNoop_sessiononly(sess, ac) == sess = None

\* session.py:173-174
DisplayNoop(sess, ac) == (sess = None) \/ (ac = None)

HintKind_swapped(variant) ==
    CASE variant = "Command"       -> "command_hints"
      [] variant = "CommandOption" -> "option_hints"
      [] variant = "Binding"       -> "node_hints"
      [] variant = "Node"          -> "binding_hints"
      [] OTHER                     -> "grid"

\* session.py:183-196  the view chosen from the type of the model's first item
HintKind(variant) ==
    CASE variant = "Command"       -> "command_hints"
      [] variant = "CommandOption" -> "option_hints"
      [] variant = "Binding"       -> "binding_hints"
      [] variant = "Node"          -> "node_hints"
      [] OTHER                     -> "grid"

\* session.py:181-199  what is written for the model: nothing when it is empty
HintOps(model) ==
    IF model = << >>
       THEN << >>
       ELSE LET kind == HintKind(model[1].variant)
            IN IF kind = "grid"
                  THEN <<[op |-> "write",
                          view |-> [kind |-> "grid",
                                    rows |-> [i \in DOMAIN model |-> Str(model[i])]]]>>
                  ELSE <<[op |-> "write", view |-> [kind |-> kind, items |-> model]]>>

\* session.py:172-203
readline_display_hook ==
    /\ exitCode = "none"
    /\ lastOp' = "display"
    /\ IF DisplayNoop(session, autocomp)
          THEN out' = << >>
          ELSE out' = <<[op |-> "write", text |-> ""]>>
                      \o HintOps(acModel)
                      \o <<[op |-> "prompt", err |-> FALSE],
                           [op |-> "write", text |-> lineBuf, end |-> ""],
                           [op |-> "flush"]>>
    /\ UNCHANGED <<acModel, lineBuf, compText, rets, acCalls>>
    /\ UNCHANGED hookFrame
    /\ UNCHANGED treeVars

\* The user edits the line: the buffer readline.get_line_buffer() returns
\* changes, and any completion request in progress is over.
EditorType(b) ==
    /\ exitCode = "none"
    /\ b # lineBuf
    /\ lastOp' = "type"
    /\ lineBuf' = b
    /\ RequestOver
    /\ out' = << >>
    /\ UNCHANGED acModel
    /\ UNCHANGED hookFrame
    /\ UNCHANGED treeVars

(***************************************************************************)
(* DevicetreeShellSession.open                                             *)
(***************************************************************************)
AlreadyOpen_never(sess) == FALSE

InstalledDisposition_default == "default"

\* session.py:149-150  signal.signal(SIGINT, dtsh_session_sig_handler)
InstalledDisposition == "suppressed"

\* session.py:138
AlreadyOpen(sess) == sess # None

\* What the collaborators' constructors may do in one call of open().
OpenHows == {"ok", "shell_fail", "autocomp_fail"}

\* session.py:32-43  the fields of a new session
NewSession(id) == [dtsh |-> id, term |-> id, last_err |-> None]

\* session.py:130-152
Open(how) ==
    /\ exitCode = "none"
    /\ lastOp' = "open"
    /\ IF AlreadyOpen(session)
          THEN /\ openRet' = "DtshError"
               /\ UNCHANGED <<session, autocomp, acModel, handle, opens, sigint>>
          ELSE /\ opens < MaxOpens
               /\ CASE how = "shell_fail" ->
                         \* DevicetreeShell.create raises (session.py:141)
                         /\ openRet' = "raised"
                         /\ UNCHANGED <<session, autocomp, acModel, handle, opens, sigint>>
                    [] how = "autocomp_fail" ->
                         \* DevicetreeAutocomp(shell) raises (session.py:147)
                         /\ openRet' = "raised"
                         /\ opens' = opens + 1
                         /\ session' = NewSession(opens + 1)
                         /\ UNCHANGED <<autocomp, acModel, handle, sigint>>
                    [] how = "ok" ->
                         /\ openRet' = "session"
                         /\ opens' = opens + 1
                         /\ session' = NewSession(opens + 1)
                         /\ autocomp' = [dtsh |-> opens + 1]
                         /\ acModel' = << >>
                         /\ sigint' = InstalledDisposition
                         /\ handle' = TRUE
    /\ out' = << >>
    /\ RequestOver
    /\ UNCHANGED <<state, pwd, sparse, execLog, result, lastLine, lineBuf>>
    /\ UNCHANGED fsVars
    /\ UNCHANGED exitCode
    /\ UNCHANGED treeVars

(***************************************************************************)
(* DevicetreeShellSession.run                                              *)
(***************************************************************************)
\* session.py:57-64  run() up to its first blocking read
Run ==
    /\ exitCode = "none"
    /\ handle
    /\ state = "Idle"
    /\ lastOp' = "run"
    /\ state' = "Running"
    /\ out' = BannerOps \o PromptOps(pwd, session.last_err)
    /\ RequestOver
    /\ UNCHANGED <<pwd, execLog, result, lastLine, exitCode, sparse, lineBuf>>
    /\ UNCHANGED sessionVars
    /\ UNCHANGED fsVars
    /\ UNCHANGED treeVars

\* The editor's state once term.readline() has returned or raised.
EditorReset ==
    /\ lineBuf' = ""
    /\ RequestOver

\* session.py:64-87, 60-64  term.readline() returns cmdline: the rest of the
\* iteration, and the next one up to its blocking read.  outcome and newpwd
\* are the engine's: what exec_command_string does, and the path it leaves.
ReadLine(cmdline, outcome, newpwd) ==
    /\ exitCode = "none"
    /\ state = "Running"
    /\ lastOp' = "line"
    /\ lastLine' = cmdline
    /\ EditorReset
    /\ UNCHANGED <<autocomp, acModel, handle, opens, openRet, sigint, sparse>>
    /\ UNCHANGED treeVars
    /\ IF NonEmpty(cmdline)
          THEN IF IsQuit(cmdline)
                  THEN /\ outcome = "ok" /\ newpwd = pwd
                       /\ Close(CloseOps)
                       /\ state' = NextState(cmdline, "line")
                       /\ result' = "quit"
                       /\ execLog' = << >>
                       /\ UNCHANGED <<session, pwd>>
                  ELSE LET e == Err(outcome, cmdline)
                           err == LastErrAfter(session.last_err, outcome, e)
                       IN /\ outcome = "ok" \/ newpwd = pwd
                          /\ execLog' = <<cmdline>>
                          /\ result' = outcome
                          /\ session' = [session EXCEPT !.last_err = err]
                          /\ pwd' = newpwd
                          /\ state' = NextState(cmdline, outcome)
                          /\ out' = ErrOps(outcome, e) \o SparseOps(sparse)
                                    \o PromptOps(newpwd, err)
                          /\ UNCHANGED <<cfg, hist, exitCode>>
          ELSE /\ outcome = "ok" /\ newpwd = pwd
               /\ execLog' = << >>
               /\ result' = "empty"
               /\ session' = [session EXCEPT !.last_err = None]
               /\ state' = NextState(cmdline, "line")
               /\ out' = SparseOps(sparse) \o PromptOps(pwd, None)
               /\ UNCHANGED <<pwd, cfg, hist, exitCode>>

\* session.py:64, 83-85  term.readline() raises EOFError
ReadEOF ==
    /\ exitCode = "none"
    /\ state = "Running"
    /\ lastOp' = "eof"
    /\ EditorReset
    /\ Close(EofOps)
    /\ state' = NextState(lastLine, "eof")
    /\ result' = "eof"
    /\ execLog' = << >>
    /\ UNCHANGED <<lastLine, pwd, sparse>>
    /\ UNCHANGED sessionVars
    /\ UNCHANGED treeVars

(***************************************************************************)
(* The interrupt signal.                                                   *)
(***************************************************************************)
\* session.py:206-211  a SIGINT delivered once open() has installed the
\* handler (session.py:150): the handler returns, and what it interrupted
\* goes on.
Sigint ==
    /\ exitCode = "none"
    /\ sigint = "suppressed"
    /\ lastOp' = "sigint"
    /\ out' = << >>
    /\ UNCHANGED <<acModel, lineBuf, compText, rets, acCalls>>
    /\ UNCHANGED hookFrame
    /\ UNCHANGED treeVars

(***************************************************************************)
(* The tree view and the text helpers of tui.py.                           *)
(***************************************************************************)
\* The nodes of the devicetree (devicetree.edtlib.Node), by identity.
Nodes == 1..8

\* Node.name, a sequence of characters.
Name(n) ==
    CASE n = 1 -> <<"/">>
      [] n = 2 -> <<"s", "o", "c">>
      [] n = 3 -> <<"c", "p", "u", "s">>
      [] n = 4 -> <<"u", "a", "r", "t", "@", "4", "0", "0", "0", "1", "0", "0", "0">>
      [] n = 5 -> <<"i", "2", "c", "@", "4", "0", "0", "0">>
      [] n = 6 -> <<"f", "l", "a", "s", "h", "@", "0">>
      [] n = 7 -> <<"m", "@", "g">>
      [] n = 8 -> <<"p", "a", "r", "t">>

\* Node.unit_addr: << >> for None, else the address.  The library gives an
\* address only to a name with an '@' followed by a hexadecimal number.
unit_addr(n) ==
    CASE n = 4 -> <<1073745920>>
      [] n = 5 -> <<16384>>
      [] n = 6 -> <<0>>
      [] OTHER -> << >>

\* Node.children, in the insertion order of the mapping.
Children(n) ==
    CASE n = 1 -> <<2, 3>>
      [] n = 2 -> <<4, 5>>
      [] n = 3 -> <<7>>
      [] n = 4 -> <<6>>
      [] n = 6 -> <<8>>
      [] OTHER -> << >>

\* The statuses a devicetree may give its nodes.
Statuses ==
    {st \in [Nodes -> {"okay", "disabled"}] :
        Cardinality({n \in Nodes : st[n] = "disabled"}) <= MaxDisabled}

\* str.rfind(c): the 0-based index of the last c in s, -1 when there is none
RFind(s, c) ==
    IF \E k \in 1..Len(s) : s[k] = c
       THEN (CHOOSE k \in 1..Len(s) : s[k] = c /\ \A j \in (k + 1)..Len(s) : s[j] # c) - 1
       ELSE -1

\* s[0:k], the Python slice
SliceTo(s, k) ==
    LET e == IF k < 0 THEN Len(s) + k ELSE k
    IN SubSeq(s, 1, IF e < 0 THEN 0 ELSE IF e > Len(s) THEN Len(s) ELSE e)

get_node_nick_keepat(n) ==
    IF unit_addr(n) # << >>
       THEN SliceTo(Name(n), RFind(Name(n), "@") + 1)
       ELSE Name(n)

\* tui.py:75-81
get_node_nick(n) ==
    IF unit_addr(n) # << >>
       THEN SliceTo(Name(n), RFind(Name(n), "@"))
       ELSE Name(n)

HexDigit(d) ==
    <<"0", "1", "2", "3", "4", "5", "6", "7", "8", "9", "a", "b", "c", "d", "e", "f">>[d + 1]

RECURSIVE HexDigits(_)
HexDigits(a) ==
    IF a < 16 THEN <<HexDigit(a)>> ELSE Append(HexDigits(a \div 16), HexDigit(a % 16))

\* hex(a)
Hex(a) == <<"0", "x">> \o HexDigits(a)

\* tui.py:152-159  the plain text of mk_txt_node_addr(node)
mk_txt_node_addr(n) ==
    IF unit_addr(n) = << >> THEN << >> ELSE Hex(unit_addr(n)[1])

BranchNodes_deep(n) ==
    Children(n) \o (IF Children(n) = << >> THEN << >> ELSE Children(Children(n)[1]))

\* tui.py:715  the nodes the widths are taken over: root.children
BranchNodes(n) == Children(n)

RECURSIVE WidthLoop(_, _, _)
\* tui.py:715-722  the loop of _get_branch_width, from its i-th round on
WidthLoop(kids, i, w) ==
    IF i > Len(kids)
       THEN w
       ELSE LET wn == Len(get_node_nick(kids[i]))
                wa == Len(mk_txt_node_addr(kids[i]))
            IN WidthLoop(kids, i + 1,
                         <<IF wa > w[1] THEN wa ELSE w[1], IF wn > w[2] THEN wn ELSE w[2]>>)

\* tui.py:712-723  [width_addr, width_nick]
get_branch_width(n) == WidthLoop(BranchNodes(n), 1, <<0, 0>>)

\* tui.py:420-433, 146-151  the row of a node in rich format
mk_node_tree_item(n, width, st) ==
    [cols |-> width,
     addr |-> mk_txt_node_addr(n),
     nick |-> get_node_nick(n),
     dim  |-> (st # "okay")]

\* tui.py:699-702
Anchor(n, width, st, fmt) == IF fmt THEN mk_node_tree_item(n, width, st) ELSE Name(n)

ChildOrder_reversed(n) == [i \in 1..Len(Children(n)) |-> Children(n)[Len(Children(n)) + 1 - i]]

\* tui.py:698  for _, node in root.children.items()
ChildOrder(n) == Children(n)

DepthAllows_le(lv, d) == (lv = 0) \/ (d <= lv)

\* tui.py:705
DepthAllows(lv, d) == (lv = 0) \/ (d < lv)

Expands_always(st) == TRUE

\* tui.py:706
Expands(st) == st # "disabled"

DepthOnReturn_keep(d) == d

\* tui.py:710
DepthOnReturn(d) == d - 1

\* tui.py:693
DepthOnEntry(d) == d + 1

\* DtNodeTreeView.__init__ not yet called, mk_txt_desc_short not yet applied.
TreeIdle ==
    /\ tpc = "idle"
    /\ status = [n \in Nodes |-> "okay"]
    /\ root = 1
    /\ level = 0
    /\ rich_fmt = FALSE
    /\ depth = 0
    /\ stack = << >>
    /\ callee = 0
    /\ view = << >>
    /\ desc = << >>
    /\ short = << >>

\* tui.py:674-687  DtNodeTreeView(root, shell, level, with_rich_fmt), up to
\* its call of _follow_node_branch(root, self._view)
Construct(st, r, lv, fmt) ==
    /\ tpc = "idle"
    /\ tpc' = "call"
    /\ status' = st
    /\ root' = r
    /\ level' = lv
    /\ rich_fmt' = fmt
    /\ depth' = 0
    /\ view' = << >>
    /\ stack' = << >>
    /\ callee' = r
    /\ UNCHANGED <<desc, short>>
    /\ UNCHANGED shellVars

\* tui.py:689-696  _follow_node_branch is entered
Enter ==
    /\ tpc = "call"
    /\ tpc' = "loop"
    /\ depth' = DepthOnEntry(depth)
    /\ stack' = Append(stack, [node |-> callee, i |-> 1, width |-> get_branch_width(callee)])
    /\ UNCHANGED <<status, root, level, rich_fmt, callee, view, desc, short>>
    /\ UNCHANGED shellVars

\* tui.py:698-707  one round of the loop over the children
Visit ==
    /\ tpc = "loop"
    /\ LET top  == stack[Len(stack)]
           kids == ChildOrder(top.node)
       IN /\ top.i <= Len(kids)
          /\ LET node == kids[top.i]
             IN /\ view' = Append(view, [node   |-> node,
                                         parent |-> top.node,
                                         anchor |-> Anchor(node, top.width, status[node], rich_fmt)])
                /\ stack' = [stack EXCEPT ![Len(stack)].i = top.i + 1]
                /\ IF DepthAllows(level, depth) /\ Expands(status[node])
                      THEN tpc' = "call" /\ callee' = node
                      ELSE UNCHANGED <<tpc, callee>>
    /\ UNCHANGED <<status, root, level, rich_fmt, depth, desc, short>>
    /\ UNCHANGED shellVars

\* tui.py:698, 709-710  the loop is over: _follow_node_branch returns
Return ==
    /\ tpc = "loop"
    /\ stack[Len(stack)].i > Len(ChildOrder(stack[Len(stack)].node))
    /\ depth' = DepthOnReturn(depth)
    /\ stack' = SubSeq(stack, 1, Len(stack) - 1)
    /\ tpc' = IF Len(stack) = 1 THEN "done" ELSE "loop"
    /\ UNCHANGED <<status, root, level, rich_fmt, callee, view, desc, short>>
    /\ UNCHANGED shellVars

(***************************************************************************)
(* mk_txt_desc_short                                                       *)
(***************************************************************************)
\* the ellipsis character, one character of text
WCHAR_ELLIPSIS == "ELLIPSIS"

\* The characters of a description.
DescChars == {"a", ".", " ", "\n"}

\* The descriptions of at most MaxDescLen characters.
Descs == UNION {[1..n -> DescChars] : n \in 0..MaxDescLen}

\* The characters str.strip() removes.
IsSpace(c) == c \in {" ", "\n", "\t"}

RECURSIVE LStrip(_)
LStrip(s) == IF s # << >> /\ IsSpace(s[1]) THEN LStrip(Tail(s)) ELSE s

RECURSIVE RStrip(_)
RStrip(s) == IF s # << >> /\ IsSpace(s[Len(s)]) THEN RStrip(SubSeq(s, 1, Len(s) - 1)) ELSE s

\* str.strip()
Strip(s) == RStrip(LStrip(s))

RECURSIVE Split(_, _)
\* str.split(sep)
Split(s, sep) ==
    IF \E k \in 1..Len(s) : s[k] = sep
       THEN LET k == CHOOSE k \in 1..Len(s) : s[k] = sep /\ \A j \in 1..(k - 1) : s[j] # sep
            IN <<SubSeq(s, 1, k - 1)>> \o Split(SubSeq(s, k + 1, Len(s)), sep)
       ELSE <<s>>

EndsWithDot_never(s) == FALSE

\* tui.py:118  desc_short.endswith('.')
EndsWithDot(s) == s # << >> /\ s[Len(s)] = "."

\* tui.py:111-121  the plain text of mk_txt_desc_short(desc)
mk_txt_desc_short(d) ==
    IF d = << >>
       THEN << >>
       ELSE LET desc_lines == Split(Strip(d), "\n")
                first      == desc_lines[1]
            IN IF Len(desc_lines) > 1
                  THEN (IF EndsWithDot(first) THEN SubSeq(first, 1, Len(first) - 1) ELSE first)
                       \o <<WCHAR_ELLIPSIS>>
                  ELSE first

\* mk_txt_desc_short is applied to a description
DescShort(d) ==
    /\ tpc = "idle"
    /\ tpc' = "desc"
    /\ desc' = d
    /\ short' = mk_txt_desc_short(d)
    /\ UNCHANGED <<status, root, level, rich_fmt, depth, stack, callee, view>>
    /\ UNCHANGED shellVars

(***************************************************************************)
(* The specification.                                                      *)
(***************************************************************************)
Init ==
    /\ session = None
    /\ autocomp = None
    /\ acModel = << >>
    /\ handle = FALSE
    /\ opens = 0
    /\ openRet = "none"
    /\ sigint = "default"
    /\ state = "Idle"
    /\ pwd = "/"
    /\ sparse \in BOOLEAN
    /\ out = << >>
    /\ execLog = << >>
    /\ result = "none"
    /\ lastLine = ""
    /\ lineBuf = ""
    /\ compText = ""
    /\ rets = << >>
    /\ acCalls = 0
    /\ lastOp = "none"
    /\ cfg \in {"noparent", "absent", "dir"}
    /\ hist \in BOOLEAN
    /\ hist => cfg = "dir"
    /\ exitCode = "none"
    /\ TreeIdle

Next ==
    \/ \E how \in OpenHows : Open(how)
    \/ Run
    \/ \E cmdline \in Lines, outcome \in Outcomes, newpwd \in Paths :
          ReadLine(cmdline, outcome, newpwd)
    \/ ReadEOF
    \/ \E b \in Buffers : EditorType(b)
    \/ \E text \in Tokens, st \in 0..MaxIndex : readline_completions_hook(text, st)
    \/ readline_display_hook
    \/ Sigint

Spec == Init /\ [][Next]_vars

\* The view code alone: no session is open.
TreeInit ==
    /\ Init
    /\ sparse = FALSE
    /\ cfg = "dir"
    /\ hist = FALSE

TreeNext ==
    \/ \E st \in Statuses, r \in Nodes, lv \in 0..MaxLevel, fmt \in BOOLEAN :
          Construct(st, r, lv, fmt)
    \/ Enter
    \/ Visit
    \/ Return
    \/ \E d \in Descs : DescShort(d)

TreeSpec == TreeInit /\ [][TreeNext]_vars

(***************************************************************************)
(* Properties of the session loop.                                         *)
(***************************************************************************)

\* C1: a non-empty line that is no quit alias is forwarded to the engine,
\* exactly once, and ends in exactly one of success, not-found, usage-error
\* and execution-failure; afterwards last-error is the raised error for the
\* three failures and is unset for success.
C1_DispatchSetsLastErr ==
    (lastOp = "line" /\ lastLine # "" /\ lastLine \notin {"q", "quit", "exit"}) =>
        /\ execLog = <<lastLine>>
        /\ result \in {"ok", "notfound", "usage", "failed"}
        /\ result = "ok" => session.last_err = None
        /\ result # "ok" => session.last_err = [kind |-> result, cmd |-> lastLine]

C1_Witness ==
    /\ lastOp = "line"
    /\ lastLine = "ls"
    /\ result = "usage"
    /\ session.last_err = [kind |-> "usage", cmd |-> "ls"]

\* C2: after an empty line is read, last-error is unset and the engine was
\* not invoked.
C2_EmptyLineClears ==
    (lastOp = "line" /\ lastLine = "") =>
        /\ session.last_err = None
        /\ execLog = << >>

C2_Witness ==
    /\ lastOp = "line"
    /\ lastLine = ""
    /\ result = "empty"
    /\ state = "Running"

\* C3: after 'q', 'quit' or 'exit' is read, close() has run (the farewell is
\* written and the process has left the loop), the session is Closed and the
\* engine was not invoked for that line.
C3_QuitCloses ==
    (lastOp = "line" /\ lastLine \in {"q", "quit", "exit"}) =>
        /\ state = "Closed"
        /\ exitCode # "none"
        /\ out = <<[op |-> "write", text |-> "bye."]>>
        /\ execLog = << >>

C3_Witness ==
    /\ lastOp = "line"
    /\ lastLine = "exit"
    /\ state = "Closed"
    /\ exitCode = "0"

\* C4: a not-found, usage or execution error leaves the session Running, at
\* the next prompt; the session is Closed only after end-of-input or a quit
\* alias; and a line is forwarded to the engine at most once.
C4_ErrorsAreLocal ==
    /\ (lastOp = "line" /\ result \in {"notfound", "usage", "failed"}) =>
          /\ state = "Running"
          /\ exitCode = "none"
          /\ out[Len(out)].op = "prompt"
    /\ state = "Closed" => result \in {"quit", "eof"}
    /\ exitCode # "none" => state = "Closed"
    /\ Len(execLog) <= 1

C4_Witness ==
    /\ lastOp = "line"
    /\ result = "failed"
    /\ state = "Running"
    /\ out[Len(out)] = [op |-> "prompt", err |-> TRUE]

\* C5: after end-of-input the terminal's line editing was aborted, then the
\* farewell of close() was written, and the session is Closed.
C5_EofAbortsThenCloses ==
    (lastOp = "eof") =>
        /\ state = "Closed"
        /\ exitCode # "none"
        /\ out = <<[op |-> "abort"], [op |-> "write", text |-> "bye."]>>

C5_Witness ==
    /\ lastOp = "eof"
    /\ result = "eof"
    /\ state = "Closed"
    /\ out[1].op = "abort"

(***************************************************************************)
(* Properties of open().                                                   *)
(***************************************************************************)

\* C6: open() called while a session is open raises the 'already opened'
\* error and leaves the two singletons and the session's fields unchanged.
C6_SecondOpenFails ==
    [][(lastOp' = "open" /\ session # None) =>
          /\ openRet' = "DtshError"
          /\ session' = session
          /\ autocomp' = autocomp
          /\ acModel' = acModel]_vars

C6_Witness ==
    /\ lastOp = "open"
    /\ openRet = "DtshError"
    /\ session # None
    /\ session.last_err # None
    /\ opens = 1

(***************************************************************************)
(* Properties of the two callbacks.                                        *)
(***************************************************************************)

\* C7: for a fixed line buffer and token, the values the completion callback
\* returned for the indices 0, 1, 2, ... are the items of one list, the
\* resolver's model for that line and token, in order; the callback returned
\* None for every index at or past the model's length, and for no smaller one.
C7_CandidatesInOrder ==
    (autocomp # None /\ rets # << >>) =>
        /\ acModel = Autocomplete(lineBuf, compText, pwd)
        /\ \A i \in 1..Len(rets) :
              /\ i <= Len(acModel) => (rets[i] = acModel[i] /\ rets[i] # None)
              /\ i > Len(acModel) => rets[i] = None

C7_Witness ==
    /\ autocomp # None
    /\ Len(acModel) = 2
    /\ Len(rets) = 4
    /\ rets[1] = acModel[1]
    /\ rets[2] = acModel[2]
    /\ rets[1] # rets[2]
    /\ rets[3] = None
    /\ rets[4] = None

\* C8 as claimed: within one completion request the resolver computes the
\* model once, on the call with index 0.
C8_ComputesOnlyAtIndexZero ==
    (autocomp # None /\ rets # << >>) => acCalls = 1

\* C8 as amended: within one completion request the resolver computes the
\* model on every call of the callback, whatever the index; each call returns
\* the item at its index in the model it has just computed.
C8_ComputesOnEveryCall ==
    (autocomp # None /\ rets # << >>) =>
        /\ acCalls = Len(rets)
        /\ \A i \in 1..Len(rets) :
              rets[i] = IF i <= Len(acModel) THEN acModel[i] ELSE None

C8_Witness ==
    /\ autocomp # None
    /\ lastOp = "completions"
    /\ Len(rets) = 3
    /\ acCalls = 3
    /\ rets[2] # None

\* C9: a callback that fires while there is no session or no dispatcher does
\* nothing: it writes nothing to the terminal, asks no resolver, changes no
\* state of the program, and the completion callback returns None.
C9_CallbacksNoopWithoutSingletons ==
    [][(lastOp' \in {"completions", "display"} /\ (session = None \/ autocomp = None)) =>
          /\ out' = << >>
          /\ acCalls' = 0
          /\ UNCHANGED <<session, autocomp, acModel, handle, opens, openRet, sigint,
                         state, pwd, sparse, execLog, result, lastLine, lineBuf,
                         cfg, hist, exitCode>>
          /\ lastOp' = "completions" => rets'[Len(rets')] = None]_vars

C9_Witness ==
    /\ lastOp = "display"
    /\ session # None
    /\ autocomp = None
    /\ out = << >>

\* Whether every item of a non-empty model is of the given variant.
C10_AllOf(model, variant) ==
    model # << >> /\ \A i \in DOMAIN model : model[i].variant = variant

\* What the display callback wrote between the blank line and the prompt.
C10_Written == SubSeq(out, 2, Len(out) - 3)

\* C10: the display callback writes the Command view when all items of the
\* model are Commands, the Option view when all are CommandOptions, the
\* Binding view when all are Bindings and the Node view when all are Nodes,
\* each over the whole model; for any other model the rows it writes are the
\* plain textual forms of the items, one row per item, in order.
C10_ViewFollowsVariant ==
    (lastOp = "display" /\ session # None /\ autocomp # None) =>
        /\ C10_AllOf(acModel, "Command") =>
              C10_Written = <<[op |-> "write", view |-> [kind |-> "command_hints", items |-> acModel]]>>
        /\ C10_AllOf(acModel, "CommandOption") =>
              C10_Written = <<[op |-> "write", view |-> [kind |-> "option_hints", items |-> acModel]]>>
        /\ C10_AllOf(acModel, "Binding") =>
              C10_Written = <<[op |-> "write", view |-> [kind |-> "binding_hints", items |-> acModel]]>>
        /\ C10_AllOf(acModel, "Node") =>
              C10_Written = <<[op |-> "write", view |-> [kind |-> "node_hints", items |-> acModel]]>>
        /\ (\A v \in {"Command", "CommandOption", "Binding", "Node"} : ~C10_AllOf(acModel, v)) =>
              \/ acModel = << >> /\ C10_Written = << >>
              \/ /\ acModel # << >>
                 /\ Len(C10_Written) = 1
                 /\ C10_Written[1].op = "write"
                 /\ C10_Written[1].view.kind = "grid"
                 /\ Len(C10_Written[1].view.rows) = Len(acModel)
                 /\ \A i \in DOMAIN acModel : C10_Written[1].view.rows[i] = acModel[i].name

C10_Witness ==
    /\ lastOp = "display"
    /\ session # None
    /\ autocomp # None
    /\ C10_AllOf(acModel, "Binding")
    /\ Len(acModel) = 2
    /\ out[2].view.kind = "binding_hints"

(***************************************************************************)
(* Properties of close(), of the interrupt signal and of the singletons.   *)
(***************************************************************************)

\* C16: whenever the session is Closed, by a quit alias or by end-of-input,
\* the farewell was written, then the history file was written, the
\* configuration directory existing afterwards, and the process exited with
\* code 0, whatever the configuration directory and its parent were before.
C16_ClosePersistsAndExitsZero ==
    state = "Closed" =>
        /\ out[Len(out)] = [op |-> "write", text |-> "bye."]
        /\ cfg = "dir"
        /\ hist = TRUE
        /\ exitCode = "0"

\* C19: once open() has returned a session, SIGINT is suppressed; a SIGINT
\* delivered then does not close the session, writes nothing, and leaves
\* last-error and the rest of the program's state as they were.
C19_SigintSuppressed ==
    /\ [](handle => sigint = "suppressed")
    /\ [][lastOp' = "sigint" =>
            /\ out' = << >>
            /\ UNCHANGED <<session, autocomp, acModel, handle, opens, openRet, sigint,
                           state, pwd, sparse, execLog, result, lastLine, lineBuf,
                           compText, rets, acCalls, cfg, hist, exitCode>>]_vars

C19_Witness ==
    /\ lastOp = "sigint"
    /\ handle
    /\ state = "Running"
    /\ session.last_err # None
    /\ exitCode = "none"

\* C20: in every reachable state the session singleton and the dispatcher
\* singleton are both set or both unset.
C20_SingletonsSetTogether ==
    (session = None) <=> (autocomp = None)

(***************************************************************************)
(* Properties of the tree view.                                            *)
(***************************************************************************)

\* x is an element of the sequence s
InSeq(x, s) == \E k \in 1..Len(s) : s[k] = x

\* the parent of a node of the hierarchy (the hierarchy's root has none)
ParentOf(n) == CHOOSE p \in Nodes : InSeq(n, Children(p))

RECURSIVE LevelBelow(_, _)
\* the number of parent links from n up to r; -1 when n is not in r's subtree
LevelBelow(r, n) ==
    IF n = r THEN 0
    ELSE IF n = 1 THEN -1
    ELSE LET up == LevelBelow(r, ParentOf(n))
         IN IF up < 0 THEN -1 ELSE up + 1

\* C18: the depth counter goes up by one on every entry to
\* _follow_node_branch and down by one on every return from it; it is 0
\* before and after a traversal, and while a branch is followed it is the
\* nesting depth of that branch: the view's root is followed at depth 1, a
\* node n levels below the root at depth n + 1.
C18_DepthCounterSymmetric ==
    /\ [](/\ tpc \in {"idle", "done", "desc"} => depth = 0
          /\ tpc = "call" => depth = LevelBelow(root, callee)
          /\ tpc = "loop" => depth = LevelBelow(root, stack[Len(stack)].node) + 1)
    /\ [][/\ (Len(stack') = Len(stack) + 1) => depth' = depth + 1
          /\ (Len(stack') = Len(stack) - 1) => depth' = depth - 1
          /\ (Len(stack') = Len(stack) /\ tpc # "idle") => depth' = depth]_vars

\* the traversal came back from three levels down to the second level
C18_Witness ==
    /\ tpc = "loop"
    /\ depth = 2
    /\ stack[Len(stack)].node = 2
    /\ Len(view) >= 4
    /\ view[3].node = 6

\* the nodes that have a branch in the view
Rendered == {view[k].node : k \in 1..Len(view)}

\* the nodes strictly between r and its descendant n
Between(r, n) == {a \in Nodes : LevelBelow(r, a) > 0 /\ LevelBelow(a, n) > 0}

\* C11: with a maximum depth N > 0 no branch of the view is for a node more
\* than N levels below the view's root; with N = 0 the finished view has a
\* branch for every descendant of the root that no disabled node hides,
\* however deep it is.
C11_DepthLimit ==
    /\ level > 0 => \A n \in Rendered : LevelBelow(root, n) <= level
    /\ (level = 0 /\ tpc = "done") =>
          \A n \in Nodes :
              (/\ LevelBelow(root, n) > 0
               /\ \A a \in Between(root, n) : status[a] # "disabled")
              => n \in Rendered

\* a finished view of depth 2 from the hierarchy's root: it stops above the
\* node at level 3
C11_Witness ==
    /\ tpc = "done"
    /\ level = 2
    /\ root = 1
    /\ \A n \in Nodes : status[n] = "okay"
    /\ Rendered = {2, 3, 4, 5, 7}

\* C12 as stated: no branch of the view is attached under a disabled node,
\* whatever the maximum depth.
C12_DisabledHasNoBranches ==
    \A k \in 1..Len(view) : status[view[k].parent] # "disabled"

\* C12, amended: no branch of the view is attached under a disabled node
\* other than the view's root, whatever the maximum depth; the root's
\* children are attached whatever the root's status.
C12_DisabledBelowRootHasNoBranches ==
    /\ \A k \in 1..Len(view) :
          view[k].parent # root => status[view[k].parent] # "disabled"
    /\ tpc = "done" => \A k \in 1..Len(Children(root)) : Children(root)[k] \in Rendered

\* an unlimited view in which a disabled node with children is a leaf
C12_Witness ==
    /\ tpc = "done"
    /\ level = 0
    /\ root = 1
    /\ status[2] = "disabled"
    /\ Rendered = {2, 3, 7}

\* the largest number of a finite non-empty set of numbers
SetMax(S) == CHOOSE m \in S : \A x \in S : x <= m

\* the direct children of a node, as a set
ChildSet(n) == {Children(n)[k] : k \in 1..Len(Children(n))}

\* [longest formatted address, longest nickname] over the direct children of n
DirectWidth(n) ==
    <<SetMax({Len(mk_txt_node_addr(c)) : c \in ChildSet(n)} \cup {0}),
      SetMax({Len(get_node_nick(c)) : c \in ChildSet(n)} \cup {0})>>

\* C13: the width computed on entering a branch is [the longest formatted
\* address, the longest nickname] over the direct children of the node that
\* is followed, [0, 0] when it has none; deeper descendants do not count.
\* Every recursion level has its own width, and the row of each child is
\* laid out with the width of the level it is attached at.
C13_WidthOfDirectChildren ==
    /\ \A k \in 1..Len(stack) : stack[k].width = DirectWidth(stack[k].node)
    /\ rich_fmt => \A k \in 1..Len(view) : view[k].anchor.cols = DirectWidth(view[k].parent)

\* two nested levels with different widths; the grandchild's nickname is
\* longer than the second level's
C13_Witness ==
    /\ tpc = "loop"
    /\ rich_fmt
    /\ Len(stack) = 3
    /\ stack[1].width = <<0, 4>>
    /\ stack[2].width = <<10, 4>>
    /\ stack[3].width = <<3, 5>>
    /\ Len(view) >= 3

\* the nodes of the branches attached under p, in the order they were attached
BranchesUnder(p) ==
    LET under == SelectSeq(view, LAMBDA b : b.parent = p)
    IN [k \in 1..Len(under) |-> under[k].node]

\* s is the beginning of t
IsPrefix(s, t) == Len(s) <= Len(t) /\ s = SubSeq(t, 1, Len(s))

\* C17: the branches attached under a node are that node's children, each
\* once, in the order of its children mapping: while the node is followed
\* they are the first children, up to the one reached, and once it has been
\* followed they are all of them.  A branch is attached under the view's
\* root or under a node whose own branch was attached before.
C17_ChildrenInMappingOrder ==
    /\ \A p \in Nodes : IsPrefix(BranchesUnder(p), Children(p))
    /\ \A k \in 1..Len(stack) :
          BranchesUnder(stack[k].node) = SubSeq(Children(stack[k].node), 1, stack[k].i - 1)
    /\ \A p \in Nodes :
          (BranchesUnder(p) # << >> /\ \A k \in 1..Len(stack) : stack[k].node # p)
          => BranchesUnder(p) = Children(p)
    /\ \A k \in 1..Len(view) :
          view[k].parent = root \/ \E j \in 1..(k - 1) : view[j].node = view[k].parent

\* the whole hierarchy was rendered, depth first
C17_Witness ==
    /\ tpc = "done"
    /\ root = 1
    /\ Len(view) = 7
    /\ [k \in 1..7 |-> view[k].node] = <<2, 4, 6, 8, 5, 3, 7>>
    /\ BranchesUnder(1) = <<2, 3>>
    /\ BranchesUnder(2) = <<4, 5>>

(***************************************************************************)
(* Properties of the text helpers.                                         *)
(***************************************************************************)

\* s is t with its last '@' and everything after it cut off
CutAtLastAt(s, t) ==
    \E k \in 1..Len(t) :
        /\ t[k] = "@"
        /\ \A j \in (k + 1)..Len(t) : t[j] # "@"
        /\ s = SubSeq(t, 1, k - 1)

\* C14: the nickname in the row of a node with a unit address is the node's
\* name with the trailing '@<unit-address>' cut off ('uart@40001000' gives
\* 'uart'); the nickname of a node whose name has no '@' is its name.
C14_NickStripsUnitAddress ==
    rich_fmt =>
        \A k \in 1..Len(view) :
            LET n == view[k].node
            IN /\ unit_addr(n) # << >> => CutAtLastAt(view[k].anchor.nick, Name(n))
               /\ ~InSeq("@", Name(n)) => view[k].anchor.nick = Name(n)
               /\ n = 4 => view[k].anchor.nick = <<"u", "a", "r", "t">>

\* rows were built for 'soc' and for 'uart@40001000'
C14_Witness ==
    /\ rich_fmt
    /\ Len(view) >= 2
    /\ view[1].node = 2
    /\ view[1].anchor.nick = <<"s", "o", "c">>
    /\ view[2].node = 4
    /\ view[2].anchor.nick = <<"u", "a", "r", "t">>

\* the text before the first line break of d, d itself when it has none
FirstLine(d) ==
    IF InSeq("\n", d)
       THEN SubSeq(d, 1, (CHOOSE k \in 1..Len(d) : d[k] = "\n" /\ ~InSeq("\n", SubSeq(d, 1, k - 1))) - 1)
       ELSE d

\* d is of more than one line
MultiLine(d) == InSeq("\n", d)

\* s without one trailing period
DropDot(s) == IF s # << >> /\ s[Len(s)] = "." THEN SubSeq(s, 1, Len(s) - 1) ELSE s

\* d without the white space and line breaks around it
Trimmed(d) ==
    LET ink == {k \in 1..Len(d) : ~IsSpace(d[k])}
    IN IF ink = {} THEN << >> ELSE SubSeq(d, -SetMax({-k : k \in ink}), SetMax(ink))

\* the short description the claim describes, of the text d
ShortOf(d) ==
    IF MultiLine(d) THEN DropDot(FirstLine(d)) \o <<WCHAR_ELLIPSIS>> ELSE d

\* C15 as stated: the short description is the first line of the full
\* description, with one trailing period dropped and the ellipsis appended
\* when the description has more than one line; a single-line description
\* is returned unchanged.
C15_FirstLineOfDescription ==
    tpc = "desc" => short = ShortOf(desc)

\* C15, amended: the same, of the description with the white space and the
\* line breaks around it removed first.
C15_FirstLineOfTrimmedDescription ==
    tpc = "desc" => short = ShortOf(Trimmed(desc))

\* a description of two lines whose first line ends with a period
C15_Witness ==
    /\ tpc = "desc"
    /\ desc = <<"a", ".", "\n", "a">>
    /\ short = <<"a", WCHAR_ELLIPSIS>>

====
